---- MODULE Spec2Model ----
(***************************************************************************)
(* Travel-Companion: trips, their ordered stops, and the validation that   *)
(* the stop service performs before every write.                           *)
(*                                                                         *)
(* Dates are day numbers counted from today.  The store is the PostgreSQL  *)
(* database behind the repositories: two tables (trips, stops), serial     *)
(* primary keys, and the composite unique key (trip_id, order_index) that  *)
(* is checked on every row write.                                          *)
(***************************************************************************)
EXTENDS Integers, Sequences, FiniteSets, TLC

(***************************************************************************)
(* Bounds of the model.                                                    *)
(***************************************************************************)
MaxTrips == 1
MaxStops == 2
MaxDay == 2
MaxIndex == 2
NumReorderStops == 3
MaxReqs == 2

(* conftest.py: every request of the test client acts as this user *)
TEST_USER_ID == 1

(* common_validators.validate_start_date: datetime.today().date() *)
Today == 0

Users == {TEST_USER_ID}
TripIds == 1..MaxTrips
StopIds == 1..MaxStops
Days == Today..MaxDay
Indices == 0..MaxIndex
Slots == 1..MaxReqs

VARIABLES
    trips,          \* table trips: id -> [user_id, start_date, end_date]
    stops,          \* table stops: id -> [trip_id, order_index, start_date, end_date]
    next_trip_id,   \* serial of trips.id
    next_stop_id,   \* serial of stops.id
    response,       \* the response to the last request
    reqs            \* the requests in flight, each in its own session

vars == <<trips, stops, next_trip_id, next_stop_id, response, reqs>>

(***************************************************************************)
(* Helpers                                                                 *)
(***************************************************************************)
Max(a, b) == IF a >= b THEN a ELSE b
Min(a, b) == IF a <= b THEN a ELSE b

Range(s) == {s[i] : i \in DOMAIN s}

(* dict.get(key, default) on the dict of the fields a request supplied *)
Get(d, k, default) == IF k \in DOMAIN d THEN d[k] ELSE default

(* a function without / with one key *)
Without(f, k) == [x \in (DOMAIN f) \ {k} |-> f[x]]
With(f, k, v) == [x \in (DOMAIN f) \cup {k} |-> IF x = k THEN v ELSE f[x]]

(* sorted(set) for a set of ids *)
RECURSIVE Sorted(_)
Sorted(S) ==
    IF S = {} THEN <<>>
    ELSE LET m == CHOOSE x \in S : \A y \in S : x <= y
         IN <<m>> \o Sorted(S \ {m})

(* the sequences without repetition over a set, of length 0..Cardinality *)
SeqsUpTo(S, n) == UNION {[1..k -> S] : k \in 0..n}

NoStop == 0     \* exclude_stop_id=None (the code tests it for truth, so 0 as well)

(* a session with no request: nothing loaded, nothing written *)
Idle ==
    [op |-> "none", pc |-> "idle", status |-> 0, inp |-> <<>>, stop_id |-> NoStop,
     stop_ids |-> <<>>, loaded |-> <<>>, present |-> {}, flushed |-> {},
     writes |-> <<>>]

Resp(op, status, kind) ==
    [op |-> op, status |-> status, kind |-> kind, missing |-> <<>>, extra |-> <<>>,
     input |-> <<>>, detail |-> <<>>]

(***************************************************************************)
(* Schemas (pydantic): what reaches a handler has passed these             *)
(***************************************************************************)
(* common_validators / trip_validators *)
validate_start_date(start_date) == start_date >= Today
validate_end_date(end_date, start_date) == ~(end_date < start_date)

(* StopCreate: start_date, end_date (checked against start_date), order_index >= 0 *)
StopCreateInputs == [start_date : Days, end_date : Days, order_index : Indices]
StopCreate(inp) ==
    /\ validate_start_date(inp.start_date)
    /\ validate_end_date(inp.end_date, inp.start_date)
    /\ inp.order_index >= 0

(* StopUpdate: every field optional; end_date is checked against start_date
   only when the request carries a start_date too *)
StopFields == {"start_date", "end_date", "order_index"}
StopPatches ==
    {p \in UNION {[F -> Days \cup Indices] : F \in SUBSET StopFields} :
        /\ "start_date" \in DOMAIN p => p["start_date"] \in Days
        /\ "end_date" \in DOMAIN p => p["end_date"] \in Days
        /\ "order_index" \in DOMAIN p => p["order_index"] \in Indices}
StopUpdate(patch) ==
    /\ "start_date" \in DOMAIN patch => validate_start_date(patch["start_date"])
    /\ ("end_date" \in DOMAIN patch /\ "start_date" \in DOMAIN patch)
          => validate_end_date(patch["end_date"], patch["start_date"])
    /\ "order_index" \in DOMAIN patch => patch["order_index"] >= 0

(* TripCreate / TripUpdate *)
TripCreateInputs == [start_date : Days, end_date : Days]
TripCreate(inp) ==
    /\ validate_start_date(inp.start_date)
    /\ validate_end_date(inp.end_date, inp.start_date)

TripFields == {"start_date", "end_date"}
TripPatches == UNION {[F -> Days] : F \in SUBSET TripFields}
TripUpdate(patch) ==
    /\ "start_date" \in DOMAIN patch => validate_start_date(patch["start_date"])
    /\ ("end_date" \in DOMAIN patch /\ "start_date" \in DOMAIN patch)
          => validate_end_date(patch["end_date"], patch["start_date"])

(* mutant: duplicates are let through *)
validate_unique_ids_lenient(stop_ids) == TRUE

(* StopReorder: stop_ids has at least one element and no duplicates *)
validate_unique_ids(stop_ids) == Len(stop_ids) = Cardinality(Range(stop_ids))
ReorderInputs == SeqsUpTo(StopIds, MaxStops)
StopReorder(stop_ids) == Len(stop_ids) >= 1 /\ validate_unique_ids(stop_ids)

(***************************************************************************)
(* Pure validators (stop_validators.py)                                    *)
(***************************************************************************)
(* mutant: the bounds of the range themselves are refused *)
validate_dates_within_range_strict(start_date, end_date, range_start, range_end) ==
    ~(start_date <= range_start \/ end_date >= range_end)

(* TRUE when the range is accepted *)
validate_dates_within_range(start_date, end_date, range_start, range_end) ==
    ~(start_date < range_start \/ end_date > range_end)

(* mutant: the day count without the + 1 *)
validate_date_overlap_exclusive(start_date, end_date, existing_stops, max_overlap_days) ==
    {r \in existing_stops :
        LET overlap_start == Max(start_date, r.start_date)
            overlap_end == Min(end_date, r.end_date)
        IN  /\ overlap_start <= overlap_end
            /\ (overlap_end - overlap_start) > max_overlap_days}

(* the rows of existing_stops that make validate_date_overlap raise *)
validate_date_overlap(start_date, end_date, existing_stops, max_overlap_days) ==
    {r \in existing_stops :
        LET overlap_start == Max(start_date, r.start_date)
            overlap_end == Min(end_date, r.end_date)
        IN  /\ overlap_start <= overlap_end
            /\ (overlap_end - overlap_start) + 1 > max_overlap_days}

(* mutant: the loop goes on to the end and the last such stop is reported *)
RECURSIVE validate_date_overlap_raise_last(_, _, _, _)
validate_date_overlap_raise_last(start_date, end_date, existing_stops, max_overlap_days) ==
    IF existing_stops = <<>> THEN <<>>
    ELSE LET rest == validate_date_overlap_raise_last(start_date, end_date,
                        Tail(existing_stops), max_overlap_days)
             existing == Head(existing_stops)
             overlap_start == Max(start_date, existing.start_date)
             overlap_end == Min(end_date, existing.end_date)
             overlap_days == (overlap_end - overlap_start) + 1
         IN  IF rest # <<>> THEN rest
             ELSE IF overlap_start <= overlap_end /\ overlap_days > max_overlap_days
             THEN [stop_name |-> existing.id, overlap_days |-> overlap_days,
                   overlap_start |-> overlap_start, overlap_end |-> overlap_end]
             ELSE <<>>

(* validate_date_overlap over the list it is given: what the ValueError it
   raises reports (the name is the id of the stop here), or <<>> when the
   loop ends without raising *)
RECURSIVE validate_date_overlap_raise(_, _, _, _)
validate_date_overlap_raise(start_date, end_date, existing_stops, max_overlap_days) ==
    IF existing_stops = <<>> THEN <<>>
    ELSE LET existing == Head(existing_stops)
             overlap_start == Max(start_date, existing.start_date)
             overlap_end == Min(end_date, existing.end_date)
             overlap_days == (overlap_end - overlap_start) + 1
         IN  IF overlap_start <= overlap_end /\ overlap_days > max_overlap_days
             THEN [stop_name |-> existing.id, overlap_days |-> overlap_days,
                   overlap_start |-> overlap_start, overlap_end |-> overlap_end]
             ELSE validate_date_overlap_raise(start_date, end_date,
                      Tail(existing_stops), max_overlap_days)

(***************************************************************************)
(* Repository queries, over a table given as rows                          *)
(***************************************************************************)
(* TripService.get_trip: the trip, when it exists and belongs to the user *)
get_trip(tbl, trip_id, user_id) ==
    trip_id \in DOMAIN tbl /\ tbl[trip_id].user_id = user_id

(* StopRepository.get_by_trip_id, as the set of ids *)
get_by_trip_id(rows, trip_id) == {id \in DOMAIN rows : rows[id].trip_id = trip_id}

(* mutant: the stop is looked up by its id alone *)
get_by_id_any_trip(rows, stop_id, trip_id) == stop_id \in DOMAIN rows

(* StopRepository.get_by_id_and_trip *)
get_by_id_and_trip(rows, stop_id, trip_id) ==
    stop_id \in DOMAIN rows /\ rows[stop_id].trip_id = trip_id

(* mutant: exclude_stop_id is ignored *)
get_stops_with_date_overlap_all(rows, trip_id, start_date, end_date, exclude_stop_id) ==
    {[id |-> id, start_date |-> rows[id].start_date, end_date |-> rows[id].end_date] :
        id \in {i \in DOMAIN rows :
                  /\ rows[i].trip_id = trip_id
                  /\ rows[i].start_date <= end_date
                  /\ rows[i].end_date >= start_date}}

(* StopRepository.get_stops_with_date_overlap: (id, start_date, end_date) of
   the trip's rows that intersect the range, without exclude_stop_id *)
get_stops_with_date_overlap(rows, trip_id, start_date, end_date, exclude_stop_id) ==
    {[id |-> id, start_date |-> rows[id].start_date, end_date |-> rows[id].end_date] :
        id \in {i \in DOMAIN rows :
                  /\ rows[i].trip_id = trip_id
                  /\ (exclude_stop_id # NoStop => i # exclude_stop_id)
                  /\ rows[i].start_date <= end_date
                  /\ rows[i].end_date >= start_date}}

(* mutant: the query finds nothing *)
order_index_exists_never(rows, trip_id, order_index, exclude_stop_id) == FALSE

(* StopRepository.order_index_exists *)
order_index_exists(rows, trip_id, order_index, exclude_stop_id) ==
    \E i \in DOMAIN rows :
        /\ rows[i].trip_id = trip_id
        /\ rows[i].order_index = order_index
        /\ (exclude_stop_id # NoStop => i # exclude_stop_id)

(* StopService.check_date_overlap: TRUE when accepted *)
check_date_overlap(rows, start_date, end_date, trip_id, exclude_stop_id) ==
    validate_date_overlap(start_date, end_date,
        get_stops_with_date_overlap(rows, trip_id, start_date, end_date, exclude_stop_id),
        1) = {}

(***************************************************************************)
(* The store's constraint uq_stops_trip_id_order, checked when row id is   *)
(* written with (trip_id, order_index)                                     *)
(***************************************************************************)
(* mutant: the table has no unique key *)
uq_stops_trip_id_order_absent(rows, id, trip_id, order_index) == TRUE

uq_stops_trip_id_order(rows, id, trip_id, order_index) ==
    ~ \E o \in (DOMAIN rows) \ {id} :
          rows[o].trip_id = trip_id /\ rows[o].order_index = order_index

(***************************************************************************)
(* bulk_update_order_indices: the session holds the trip's rows; every id  *)
(* of the mapping gets its new order_index, and flush() sends one UPDATE   *)
(* per changed row, in primary-key order.  Each UPDATE is checked against  *)
(* the unique key; the first rejected one raises IntegrityError.           *)
(***************************************************************************)
RECURSIVE flush(_, _, _)
flush(rows, mapping, todo) ==
    IF todo = {} THEN [ok |-> TRUE, rows |-> rows]
    ELSE LET id == CHOOSE x \in todo : \A y \in todo : x <= y
         IN  IF id \notin DOMAIN rows \/ rows[id].order_index = mapping[id]
             THEN flush(rows, mapping, todo \ {id})
             ELSE IF ~uq_stops_trip_id_order(rows, id, rows[id].trip_id, mapping[id])
             THEN [ok |-> FALSE, rows |-> rows]
             ELSE flush([rows EXCEPT ![id].order_index = mapping[id]],
                        mapping, todo \ {id})

bulk_update_order_indices(rows, stop_id_to_order) ==
    flush(rows, stop_id_to_order, DOMAIN stop_id_to_order)

(* mutant: the temporary index is -(i) *)
temp_mapping_from_zero(stop_ids) ==
    [id \in Range(stop_ids) |->
        -((CHOOSE i \in DOMAIN stop_ids : stop_ids[i] = id) - 1)]

(* mutant: the final index is i + 1 *)
final_mapping_from_one(stop_ids) ==
    [id \in Range(stop_ids) |->
        (CHOOSE i \in DOMAIN stop_ids : stop_ids[i] = id) - 1 + 1]

(* mutant: phase 2 writes the temporary indices once more *)
final_mapping_temporary(stop_ids) ==
    [id \in Range(stop_ids) |->
        -((CHOOSE i \in DOMAIN stop_ids : stop_ids[i] = id) - 1 + 1)]

(* reorder_stops, phase 1 and phase 2 mappings; position i is 0-based in the
   code and 1-based in stop_ids here *)
temp_mapping(stop_ids) ==
    [id \in Range(stop_ids) |->
        -((CHOOSE i \in DOMAIN stop_ids : stop_ids[i] = id) - 1 + 1)]
final_mapping(stop_ids) ==
    [id \in Range(stop_ids) |->
        (CHOOSE i \in DOMAIN stop_ids : stop_ids[i] = id) - 1]

(* mutant: one pass that numbers the stops after the largest index in use *)
two_phase_update_above_max(rows, stop_ids) ==
    LET top == CHOOSE m \in {rows[id].order_index : id \in Range(stop_ids)} :
                   \A id \in Range(stop_ids) : rows[id].order_index <= m
    IN  bulk_update_order_indices(rows,
            [id \in Range(stop_ids) |-> top + 1 + final_mapping(stop_ids)[id]])

(* mutant: the reordered stops are cut to their first day as well *)
two_phase_update_cutting_dates(rows, stop_ids) ==
    LET phase1 == bulk_update_order_indices(rows, temp_mapping(stop_ids))
        phase2 == bulk_update_order_indices(phase1.rows, final_mapping(stop_ids))
    IN  IF ~phase1.ok THEN phase1
        ELSE [ok |-> phase2.ok,
              rows |-> [id \in DOMAIN phase2.rows |->
                          IF id \in Range(stop_ids)
                          THEN [phase2.rows[id] EXCEPT !.end_date = phase2.rows[id].start_date]
                          ELSE phase2.rows[id]]]

(* the two flushes of reorder_stops, one after the other *)
two_phase_update(rows, stop_ids) ==
    LET phase1 == bulk_update_order_indices(rows, temp_mapping(stop_ids))
    IN  IF ~phase1.ok THEN phase1
        ELSE bulk_update_order_indices(phase1.rows, final_mapping(stop_ids))

(***************************************************************************)
(* Reordering on a store that checks uq_stops_trip_id_order when the       *)
(* transaction commits, not at every row write: the rows are written as    *)
(* told, and commit() is refused if two rows of a trip hold one index.     *)
(***************************************************************************)
write_order_indices(rows, stop_id_to_order) ==
    [id \in DOMAIN rows |->
        IF id \in DOMAIN stop_id_to_order
        THEN [rows[id] EXCEPT !.order_index = stop_id_to_order[id]]
        ELSE rows[id]]

commit_deferred(rows) ==
    [ok |-> \A id \in DOMAIN rows :
               uq_stops_trip_id_order(rows, id, rows[id].trip_id, rows[id].order_index),
     rows |-> rows]

(* routers/stops.py reorder_stops: for new_index, stop_id in enumerate(...):
   stop_map[stop_id].order_index = new_index; then db.commit() *)
enumerate(stop_ids) ==
    [id \in Range(stop_ids) |->
        (CHOOSE new_index \in 0..(Len(stop_ids) - 1) : stop_ids[new_index + 1] = id)]
single_pass_reorder(rows, stop_ids) ==
    commit_deferred(write_order_indices(rows, enumerate(stop_ids)))

(* StopService.reorder_stops on that store: phase 1, phase 2, commit *)
two_phase_reorder_deferred(rows, stop_ids) ==
    commit_deferred(
        write_order_indices(write_order_indices(rows, temp_mapping(stop_ids)),
                            final_mapping(stop_ids)))

(* for key, value in data.items(): setattr(instance, key, value) *)
(* mutant: the optional fields the request left out are written too, as the
   default of the schema *)
setattrs_with_defaults(instance, data) ==
    [k \in DOMAIN instance |->
        IF k \in DOMAIN data THEN data[k]
        ELSE IF k \in {"start_date", "end_date", "order_index"} THEN 0
        ELSE instance[k]]

setattrs(instance, data) ==
    [k \in DOMAIN instance |-> IF k \in DOMAIN data THEN data[k] ELSE instance[k]]

(***************************************************************************)
(* TripService                                                             *)
(***************************************************************************)
create_trip(user_id, inp) ==
    /\ IF ~TripCreate(inp)
       THEN /\ response' = Resp("create_trip", 422, "schema")
            /\ UNCHANGED <<trips, next_trip_id>>
       ELSE /\ trips' = With(trips, next_trip_id,
                  [user_id |-> user_id, start_date |-> inp.start_date,
                   end_date |-> inp.end_date])
            /\ next_trip_id' = next_trip_id + 1
            /\ response' = Resp("create_trip", 201, "ok")
    /\ UNCHANGED <<stops, next_stop_id>>

(* mutant: every range is accepted *)
validate_trip_date_range_lenient(start_date, end_date) == TRUE

(* mutant: a trip of one day is refused *)
validate_trip_date_range_strict(start_date, end_date) == ~(end_date <= start_date)

(* TRUE when the range is accepted *)
validate_trip_date_range(start_date, end_date) == ~(end_date < start_date)

update_trip(user_id, trip_id, patch) ==
    /\ IF ~TripUpdate(patch)
       THEN response' = Resp("update_trip", 422, "schema") /\ UNCHANGED trips
       ELSE IF ~get_trip(trips, trip_id, user_id)
       THEN response' = Resp("update_trip", 404, "trip_not_found") /\ UNCHANGED trips
       ELSE LET trip == trips[trip_id]
                new_start == Get(patch, "start_date", trip.start_date)
                new_end == Get(patch, "end_date", trip.end_date)
            IN  IF ~validate_trip_date_range(new_start, new_end)
                THEN response' = Resp("update_trip", 400, "invalid_range")
                     /\ UNCHANGED trips
                ELSE /\ trips' = [trips EXCEPT ![trip_id] = setattrs(trip, patch)]
                     /\ response' = Resp("update_trip", 200, "ok")
    /\ UNCHANGED <<stops, next_trip_id, next_stop_id>>

(* mutant: the stops of the trip stay behind *)
delete_trip_no_cascade(user_id, trip_id) ==
    /\ IF ~get_trip(trips, trip_id, user_id)
       THEN response' = Resp("delete_trip", 404, "trip_not_found")
            /\ UNCHANGED <<trips, stops>>
       ELSE /\ trips' = Without(trips, trip_id)
            /\ response' = Resp("delete_trip", 200, "ok")
            /\ UNCHANGED stops
    /\ UNCHANGED <<next_trip_id, next_stop_id>>

(* db.delete(trip): the stops go with it (cascade="all, delete-orphan",
   ondelete="CASCADE") *)
delete_trip(user_id, trip_id) ==
    /\ IF ~get_trip(trips, trip_id, user_id)
       THEN response' = Resp("delete_trip", 404, "trip_not_found")
            /\ UNCHANGED <<trips, stops>>
       ELSE /\ trips' = Without(trips, trip_id)
            /\ stops' = [id \in (DOMAIN stops) \ get_by_trip_id(stops, trip_id)
                            |-> stops[id]]
            /\ response' = Resp("delete_trip", 200, "ok")
    /\ UNCHANGED <<next_trip_id, next_stop_id>>

(***************************************************************************)
(* StopService                                                             *)
(***************************************************************************)
(* mutant: the three checks in the opposite order *)
create_stop_check_index_first(tbl, rows, user_id, trip_id, inp) ==
    IF ~get_trip(tbl, trip_id, user_id) THEN "trip_not_found"
    ELSE IF order_index_exists(rows, trip_id, inp.order_index, NoStop)
    THEN "duplicate_index"
    ELSE IF ~check_date_overlap(rows, inp.start_date, inp.end_date, trip_id, NoStop)
    THEN "overlap"
    ELSE IF ~validate_dates_within_range(inp.start_date, inp.end_date,
                tbl[trip_id].start_date, tbl[trip_id].end_date)
    THEN "out_of_bounds"
    ELSE "ok"

(* the check of create_stop that rejects the request, or "ok" *)
create_stop_check(tbl, rows, user_id, trip_id, inp) ==
    IF ~get_trip(tbl, trip_id, user_id) THEN "trip_not_found"
    ELSE IF ~validate_dates_within_range(inp.start_date, inp.end_date,
                tbl[trip_id].start_date, tbl[trip_id].end_date)
    THEN "out_of_bounds"
    ELSE IF ~check_date_overlap(rows, inp.start_date, inp.end_date, trip_id, NoStop)
    THEN "overlap"
    ELSE IF order_index_exists(rows, trip_id, inp.order_index, NoStop)
    THEN "duplicate_index"
    ELSE "ok"

StatusOf(kind) ==
    CASE kind = "ok" -> 200
      [] kind = "schema" -> 422
      [] kind \in {"trip_not_found", "stop_not_found"} -> 404
      [] kind = "integrity_error" -> 500
      [] OTHER -> 400

create_stop(user_id, trip_id, inp) ==
    LET kind == IF ~StopCreate(inp) THEN "schema"
                ELSE create_stop_check(trips, stops, user_id, trip_id, inp)
    IN  /\ IF kind # "ok"
           THEN response' = Resp("create_stop", StatusOf(kind), kind)
                /\ UNCHANGED <<stops, next_stop_id>>
           ELSE IF ~uq_stops_trip_id_order(stops, next_stop_id, trip_id, inp.order_index)
           THEN response' = Resp("create_stop", 500, "integrity_error")
                /\ UNCHANGED <<stops, next_stop_id>>
           ELSE /\ stops' = With(stops, next_stop_id,
                      [trip_id |-> trip_id, order_index |-> inp.order_index,
                       start_date |-> inp.start_date, end_date |-> inp.end_date])
                /\ next_stop_id' = next_stop_id + 1
                /\ response' = Resp("create_stop", 201, "ok")
        /\ UNCHANGED <<trips, next_trip_id>>

(* mutant: the overlap check runs only when start_date is patched *)
update_stop_check_start_only(tbl, rows, user_id, trip_id, stop_id, update_data) ==
    IF ~get_trip(tbl, trip_id, user_id) THEN "trip_not_found"
    ELSE IF ~get_by_id_and_trip(rows, stop_id, trip_id) THEN "stop_not_found"
    ELSE LET stop == rows[stop_id]
             final_start == Get(update_data, "start_date", stop.start_date)
             final_end == Get(update_data, "end_date", stop.end_date)
         IN  IF ~validate_dates_within_range(final_start, final_end,
                    tbl[trip_id].start_date, tbl[trip_id].end_date)
             THEN "out_of_bounds"
             ELSE IF /\ "start_date" \in DOMAIN update_data
                     /\ ~check_date_overlap(rows, final_start, final_end,
                                            trip_id, stop_id)
             THEN "overlap"
             ELSE IF /\ "order_index" \in DOMAIN update_data
                     /\ order_index_exists(rows, trip_id,
                            update_data["order_index"], stop_id)
             THEN "duplicate_index"
             ELSE "ok"

(* mutant: containment is checked only when a date is patched *)
update_stop_check_dates_only(tbl, rows, user_id, trip_id, stop_id, update_data) ==
    IF ~get_trip(tbl, trip_id, user_id) THEN "trip_not_found"
    ELSE IF ~get_by_id_and_trip(rows, stop_id, trip_id) THEN "stop_not_found"
    ELSE LET stop == rows[stop_id]
             final_start == Get(update_data, "start_date", stop.start_date)
             final_end == Get(update_data, "end_date", stop.end_date)
             dated == "start_date" \in DOMAIN update_data
                         \/ "end_date" \in DOMAIN update_data
         IN  IF /\ dated
                /\ ~validate_dates_within_range(final_start, final_end,
                        tbl[trip_id].start_date, tbl[trip_id].end_date)
             THEN "out_of_bounds"
             ELSE IF /\ dated
                     /\ ~check_date_overlap(rows, final_start, final_end,
                                            trip_id, stop_id)
             THEN "overlap"
             ELSE IF /\ "order_index" \in DOMAIN update_data
                     /\ order_index_exists(rows, trip_id,
                            update_data["order_index"], stop_id)
             THEN "duplicate_index"
             ELSE "ok"

(* the check of update_stop that rejects the request, or "ok" *)
update_stop_check(tbl, rows, user_id, trip_id, stop_id, update_data) ==
    IF ~get_trip(tbl, trip_id, user_id) THEN "trip_not_found"
    ELSE IF ~get_by_id_and_trip(rows, stop_id, trip_id) THEN "stop_not_found"
    ELSE LET stop == rows[stop_id]
             final_start == Get(update_data, "start_date", stop.start_date)
             final_end == Get(update_data, "end_date", stop.end_date)
         IN  IF ~validate_dates_within_range(final_start, final_end,
                    tbl[trip_id].start_date, tbl[trip_id].end_date)
             THEN "out_of_bounds"
             ELSE IF /\ ("start_date" \in DOMAIN update_data
                            \/ "end_date" \in DOMAIN update_data)
                     /\ ~check_date_overlap(rows, final_start, final_end,
                                            trip_id, stop_id)
             THEN "overlap"
             ELSE IF /\ "order_index" \in DOMAIN update_data
                     /\ order_index_exists(rows, trip_id,
                            update_data["order_index"], stop_id)
             THEN "duplicate_index"
             ELSE "ok"

(* mutant: the patch is written before it is validated, and stays *)
update_stop_write_first(user_id, trip_id, stop_id, patch) ==
    /\ LET kind == IF ~StopUpdate(patch) THEN "schema"
                   ELSE update_stop_check(trips, stops, user_id, trip_id, stop_id, patch)
       IN  /\ response' = Resp("update_stop", StatusOf(kind), kind)
           /\ IF kind \in {"schema", "trip_not_found", "stop_not_found"}
              THEN UNCHANGED stops
              ELSE stops' = [stops EXCEPT ![stop_id] = setattrs(stops[stop_id], patch)]
    /\ UNCHANGED <<trips, next_trip_id, next_stop_id>>

update_stop(user_id, trip_id, stop_id, patch) ==
    /\ LET kind == IF ~StopUpdate(patch) THEN "schema"
                   ELSE update_stop_check(trips, stops, user_id, trip_id, stop_id, patch)
       IN  IF kind # "ok"
           THEN response' = Resp("update_stop", StatusOf(kind), kind)
                /\ UNCHANGED stops
           ELSE LET updated == setattrs(stops[stop_id], patch)
                IN  IF ~uq_stops_trip_id_order(stops, stop_id, updated.trip_id,
                                               updated.order_index)
                    THEN response' = Resp("update_stop", 500, "integrity_error")
                         /\ UNCHANGED stops
                    ELSE /\ stops' = [stops EXCEPT ![stop_id] = updated]
                         /\ response' = Resp("update_stop", 200, "ok")
    /\ UNCHANGED <<trips, next_trip_id, next_stop_id>>

(* mutant: the stops that came after the deleted one move up by one *)
delete_stop_renumber(user_id, trip_id, stop_id) ==
    /\ IF ~get_by_id_and_trip(stops, stop_id, trip_id)
       THEN response' = Resp("delete_stop", 404, "stop_not_found")
            /\ UNCHANGED stops
       ELSE /\ stops' = [id \in (DOMAIN stops) \ {stop_id} |->
                            IF /\ stops[id].trip_id = trip_id
                               /\ stops[id].order_index > stops[stop_id].order_index
                            THEN [stops[id] EXCEPT !.order_index = @ - 1]
                            ELSE stops[id]]
            /\ response' = Resp("delete_stop", 200, "ok")
    /\ UNCHANGED <<trips, next_trip_id, next_stop_id>>

(* delete_stop does not look the trip up: get_stop, then delete_by_id *)
delete_stop(user_id, trip_id, stop_id) ==
    /\ IF ~get_by_id_and_trip(stops, stop_id, trip_id)
       THEN response' = Resp("delete_stop", 404, "stop_not_found")
            /\ UNCHANGED stops
       ELSE /\ stops' = Without(stops, stop_id)
            /\ response' = Resp("delete_stop", 200, "ok")
    /\ UNCHANGED <<trips, next_trip_id, next_stop_id>>

(* mutant: the two lists change places *)
reorder_mismatch_swapped(stop_ids_in_db, provided_ids) ==
    [Resp("reorder_stops", 400, "id_mismatch") EXCEPT
        !.missing = Sorted(provided_ids \ stop_ids_in_db),
        !.extra = Sorted(stop_ids_in_db \ provided_ids)]

(* the 422 of StopReorder: min_length is checked before the field validator,
   and the error of the validator carries the list it refused *)
StopReorderError(stop_ids) ==
    IF Len(stop_ids) < 1 THEN Resp("reorder_stops", 422, "too_short")
    ELSE [Resp("reorder_stops", 422, "duplicate_ids") EXCEPT !.input = stop_ids]

(* the 400 of reorder_stops: missing and extra ids, each sorted *)
reorder_mismatch(stop_ids_in_db, provided_ids) ==
    [Resp("reorder_stops", 400, "id_mismatch") EXCEPT
        !.missing = Sorted(stop_ids_in_db \ provided_ids),
        !.extra = Sorted(provided_ids \ stop_ids_in_db)]

reorder_stops(user_id, trip_id, stop_ids) ==
    /\ IF ~StopReorder(stop_ids)
       THEN response' = StopReorderError(stop_ids) /\ UNCHANGED stops
       ELSE IF ~get_trip(trips, trip_id, user_id)
       THEN response' = Resp("reorder_stops", 404, "trip_not_found") /\ UNCHANGED stops
       ELSE LET stop_ids_in_db == get_by_trip_id(stops, trip_id)
                provided_ids == Range(stop_ids)
            IN  IF provided_ids # stop_ids_in_db
                THEN response' = reorder_mismatch(stop_ids_in_db, provided_ids)
                     /\ UNCHANGED stops
                ELSE LET written == two_phase_update(stops, stop_ids)
                     IN  IF ~written.ok
                         THEN response' = Resp("reorder_stops", 500, "integrity_error")
                              /\ UNCHANGED stops
                         ELSE /\ stops' = written.rows
                              /\ response' = Resp("reorder_stops", 200, "ok")
    /\ UNCHANGED <<trips, next_trip_id, next_stop_id>>

(***************************************************************************)
(* Requests served one at a time                                           *)
(***************************************************************************)
(* Base.metadata.create_all: empty tables, serials at 1 *)
Init ==
    /\ trips = <<>>
    /\ stops = <<>>
    /\ next_trip_id = 1
    /\ next_stop_id = 1
    /\ response = Resp("none", 0, "none")
    /\ reqs = [s \in Slots |-> Idle]

(* the serials stop at MaxTrips and MaxStops *)
CreateTrip ==
    \E u \in Users, inp \in TripCreateInputs :
        create_trip(u, inp) /\ next_trip_id' <= MaxTrips + 1 /\ UNCHANGED reqs
UpdateTrip ==
    \E u \in Users, t \in TripIds, p \in TripPatches :
        update_trip(u, t, p) /\ UNCHANGED reqs
DeleteTrip == \E u \in Users, t \in TripIds : delete_trip(u, t) /\ UNCHANGED reqs
CreateStop ==
    \E u \in Users, t \in TripIds, inp \in StopCreateInputs :
        create_stop(u, t, inp) /\ next_stop_id' <= MaxStops + 1 /\ UNCHANGED reqs
UpdateStop ==
    \E u \in Users, t \in TripIds, id \in StopIds, p \in StopPatches :
        update_stop(u, t, id, p) /\ UNCHANGED reqs
DeleteStop ==
    \E u \in Users, t \in TripIds, id \in StopIds :
        delete_stop(u, t, id) /\ UNCHANGED reqs
ReorderStops ==
    \E u \in Users, t \in TripIds, ids \in ReorderInputs :
        reorder_stops(u, t, ids) /\ UNCHANGED reqs

Next ==
    \/ CreateTrip
    \/ UpdateTrip
    \/ DeleteTrip
    \/ CreateStop
    \/ UpdateStop
    \/ DeleteStop
    \/ ReorderStops

Spec == Init /\ [][Next]_vars

(***************************************************************************)
(* Reordering a trip of NumReorderStops stops: the database holds one trip *)
(* whose stops were created with distinct indices (gaps allowed); clients  *)
(* reorder and delete.                                                     *)
(***************************************************************************)
ReorderIds == 1..NumReorderStops
ReorderStopInputs == SeqsUpTo(ReorderIds, NumReorderStops)

ReorderInit ==
    /\ trips = <<[user_id |-> TEST_USER_ID, start_date |-> Today, end_date |-> MaxDay]>>
    /\ \E idx \in [ReorderIds -> 0..(MaxIndex + 1)] :
          /\ \A a, b \in ReorderIds : a # b => idx[a] # idx[b]
          /\ stops = [id \in ReorderIds |->
                        [trip_id |-> 1, order_index |-> idx[id],
                         start_date |-> Today, end_date |-> Today]]
    /\ next_trip_id = 2
    /\ next_stop_id = NumReorderStops + 1
    /\ response = Resp("none", 0, "none")
    /\ reqs = [s \in Slots |-> Idle]

ReorderSome ==
    \E u \in Users, t \in TripIds, ids \in ReorderStopInputs :
        reorder_stops(u, t, ids) /\ UNCHANGED reqs
DeleteSome ==
    \E u \in Users, t \in TripIds, id \in ReorderIds :
        delete_stop(u, t, id) /\ UNCHANGED reqs

ReorderNext ==
    \/ ReorderSome
    \/ DeleteSome

ReorderSpec == ReorderInit /\ [][ReorderNext]_vars

(***************************************************************************)
(* Two trips side by side: the database holds two trips of the same user,  *)
(* each with one stop; clients create, update, delete and reorder stops of *)
(* either trip and delete either trip, one request at a time.              *)
(***************************************************************************)
IsoTrips == 1..(MaxTrips + 1)
IsoStopIds == 1..(MaxStops + 1)
IsoCreateInputs == {inp \in StopCreateInputs : inp.start_date = Today}
IsoPatches ==
    {p \in StopPatches : DOMAIN p = {"order_index"} \/ DOMAIN p = {"end_date"}}
IsoReorderInputs == SeqsUpTo(IsoStopIds, MaxStops)

IsoInit ==
    /\ trips = [t \in IsoTrips |->
                  [user_id |-> TEST_USER_ID, start_date |-> Today, end_date |-> MaxDay]]
    /\ \E idx \in [IsoTrips -> Indices] :
          stops = [id \in IsoTrips |->
                     [trip_id |-> id, order_index |-> idx[id],
                      start_date |-> Today, end_date |-> Today]]
    /\ next_trip_id = MaxTrips + 2
    /\ next_stop_id = MaxTrips + 2
    /\ response = Resp("none", 0, "none")
    /\ reqs = [s \in Slots |-> Idle]

IsoCreateStop ==
    \E u \in Users, t \in IsoTrips, inp \in IsoCreateInputs :
        create_stop(u, t, inp) /\ next_stop_id' <= MaxStops + 2 /\ UNCHANGED reqs
IsoUpdateStop ==
    \E u \in Users, t \in IsoTrips, id \in IsoStopIds, p \in IsoPatches :
        update_stop(u, t, id, p) /\ UNCHANGED reqs
IsoDeleteStop ==
    \E u \in Users, t \in IsoTrips, id \in IsoStopIds :
        delete_stop(u, t, id) /\ UNCHANGED reqs
IsoReorderStops ==
    \E u \in Users, t \in IsoTrips, ids \in IsoReorderInputs :
        reorder_stops(u, t, ids) /\ UNCHANGED reqs
IsoDeleteTrip == \E u \in Users, t \in IsoTrips : delete_trip(u, t) /\ UNCHANGED reqs

IsoNext ==
    \/ IsoCreateStop
    \/ IsoUpdateStop
    \/ IsoDeleteStop
    \/ IsoReorderStops
    \/ IsoDeleteTrip

IsoSpec == IsoInit /\ [][IsoNext]_vars

(***************************************************************************)
(* Two users (conftest.multiple_users_with_trips): the database holds a    *)
(* trip of each user, each with one stop; either user sends stop requests  *)
(* for either trip, one request at a time.                                 *)
(***************************************************************************)
OTHER_USER_ID == 2
OwnerUsers == {TEST_USER_ID, OTHER_USER_ID}

OwnerInit ==
    /\ trips = [t \in IsoTrips |->
                  [user_id |-> IF t = 1 THEN TEST_USER_ID ELSE OTHER_USER_ID,
                   start_date |-> Today, end_date |-> MaxDay]]
    /\ \E idx \in [IsoTrips -> Indices] :
          stops = [id \in IsoTrips |->
                     [trip_id |-> id, order_index |-> idx[id],
                      start_date |-> Today, end_date |-> Today]]
    /\ next_trip_id = MaxTrips + 2
    /\ next_stop_id = MaxTrips + 2
    /\ response = Resp("none", 0, "none")
    /\ reqs = [s \in Slots |-> Idle]

OwnerCreateStop ==
    \E u \in OwnerUsers, t \in IsoTrips, inp \in IsoCreateInputs :
        create_stop(u, t, inp) /\ next_stop_id' <= MaxStops + 2 /\ UNCHANGED reqs
OwnerUpdateStop ==
    \E u \in OwnerUsers, t \in IsoTrips, id \in IsoStopIds, p \in IsoPatches :
        update_stop(u, t, id, p) /\ UNCHANGED reqs
OwnerDeleteStop ==
    \E u \in OwnerUsers, t \in IsoTrips, id \in IsoStopIds :
        delete_stop(u, t, id) /\ UNCHANGED reqs
OwnerReorderStops ==
    \E u \in OwnerUsers, t \in IsoTrips, ids \in IsoReorderInputs :
        reorder_stops(u, t, ids) /\ UNCHANGED reqs

OwnerNext ==
    \/ OwnerCreateStop
    \/ OwnerUpdateStop
    \/ OwnerDeleteStop
    \/ OwnerReorderStops

OwnerSpec == OwnerInit /\ [][OwnerNext]_vars

(***************************************************************************)
(* Updating the stops of a trip: the database holds one trip and MaxStops  *)
(* stops that create_stop accepted; clients send every kind of patch.      *)
(***************************************************************************)
UpdateInit ==
    /\ trips = <<[user_id |-> TEST_USER_ID, start_date |-> Today, end_date |-> MaxDay]>>
    /\ \E rows \in [StopIds -> StopCreateInputs] :
          /\ \A id \in StopIds : StopCreate(rows[id])
          /\ \A a, b \in StopIds :
                a < b => /\ rows[a].order_index # rows[b].order_index
                         /\ validate_date_overlap(rows[b].start_date, rows[b].end_date,
                                {rows[a]}, 1) = {}
          /\ stops = [id \in StopIds |->
                        [trip_id |-> 1, order_index |-> rows[id].order_index,
                         start_date |-> rows[id].start_date,
                         end_date |-> rows[id].end_date]]
    /\ next_trip_id = 2
    /\ next_stop_id = MaxStops + 1
    /\ response = Resp("none", 0, "none")
    /\ reqs = [s \in Slots |-> Idle]

UpdateSome ==
    \E u \in Users, t \in TripIds, id \in StopIds, p \in StopPatches :
        update_stop(u, t, id, p) /\ UNCHANGED reqs

UpdateNext == UpdateSome

UpdateSpec == UpdateInit /\ [][UpdateNext]_vars

(***************************************************************************)
(* Changing the dates of a trip that has stops: the database holds one     *)
(* trip and MaxStops stops that create_stop accepted; clients update the   *)
(* trip, and update the stops with patches that carry no date.             *)
(***************************************************************************)
NonDatePatches == {p \in StopPatches : DOMAIN p \subseteq {"order_index"}}

ShrinkTrip ==
    \E u \in Users, t \in TripIds, p \in TripPatches :
        update_trip(u, t, p) /\ UNCHANGED reqs
PatchNoDate ==
    \E u \in Users, t \in TripIds, id \in StopIds, p \in NonDatePatches :
        update_stop(u, t, id, p) /\ UNCHANGED reqs

ShrinkNext ==
    \/ ShrinkTrip
    \/ PatchNoDate

ShrinkSpec == UpdateInit /\ [][ShrinkNext]_vars

(***************************************************************************)
(* Filling a trip: the database holds one trip, of any range, without      *)
(* stops; clients create and delete stops, one request at a time.  The     *)
(* first slot of reqs keeps the request served last.                       *)
(***************************************************************************)
FillInit ==
    /\ \E inp \in TripCreateInputs :
          /\ TripCreate(inp)
          /\ trips = <<[user_id |-> TEST_USER_ID, start_date |-> inp.start_date,
                        end_date |-> inp.end_date]>>
    /\ stops = <<>>
    /\ next_trip_id = 2
    /\ next_stop_id = 1
    /\ response = Resp("none", 0, "none")
    /\ reqs = [s \in Slots |-> Idle]

FillCreate ==
    \E u \in Users, t \in TripIds, inp \in StopCreateInputs :
        /\ create_stop(u, t, inp)
        /\ next_stop_id' <= MaxStops + 1
        /\ reqs' = [reqs EXCEPT ![1] =
                       [Idle EXCEPT !.op = "create_stop", !.pc = "done",
                                    !.inp = inp, !.status = response'.status]]
FillDelete ==
    \E u \in Users, t \in TripIds, id \in StopIds :
        /\ delete_stop(u, t, id)
        /\ reqs' = [reqs EXCEPT ![1] =
                       [Idle EXCEPT !.op = "delete_stop", !.pc = "done",
                                    !.stop_id = id, !.status = response'.status]]

FillNext ==
    \/ FillCreate
    \/ FillDelete

FillSpec == FillInit /\ [][FillNext]_vars

(***************************************************************************)
(* Patching the stops of a trip: the database of UpdateInit; clients send  *)
(* every kind of patch, one request at a time.  The first slot of reqs     *)
(* keeps the request served last and the row that get_stop gave it.        *)
(***************************************************************************)
PatchSome ==
    \E u \in Users, t \in TripIds, id \in StopIds, p \in StopPatches :
        /\ update_stop(u, t, id, p)
        /\ reqs' = [reqs EXCEPT ![1] =
                       [Idle EXCEPT !.op = "update_stop", !.pc = "done",
                                    !.inp = p, !.stop_id = id,
                                    !.status = response'.status,
                                    !.loaded = IF get_by_id_and_trip(stops, id, t)
                                               THEN stops[id] ELSE <<>>]]

PatchNext == PatchSome

PatchSpec == UpdateInit /\ [][PatchNext]_vars

(***************************************************************************)
(* StopService.check_date_overlap on the database of UpdateInit, for every *)
(* candidate range.  The query of get_stops_with_date_overlap has no ORDER *)
(* BY, so its rows come in any order.  The first slot of reqs keeps the    *)
(* call: the candidate, exclude_stop_id, and the list the validator got.   *)
(***************************************************************************)
(* the lists that hold every element of a set once *)
ListsOf(S) ==
    {seq \in [1..Cardinality(S) -> S] :
        \A i, j \in 1..Cardinality(S) : i # j => seq[i] # seq[j]}

CheckOverlap ==
    \E t \in TripIds, start_date \in Days, end_date \in Days,
       exclude_stop_id \in {NoStop} \cup StopIds :
        \E existing_dates \in
              ListsOf(get_stops_with_date_overlap(stops, t, start_date, end_date,
                                                  exclude_stop_id)) :
            LET e == validate_date_overlap_raise(start_date, end_date, existing_dates, 1)
            IN  /\ response' = IF e = <<>> THEN Resp("check_date_overlap", 200, "ok")
                                ELSE [Resp("check_date_overlap", 400, "overlap")
                                         EXCEPT !.detail = e]
                /\ reqs' = [reqs EXCEPT ![1] =
                               [Idle EXCEPT !.op = "check_date_overlap", !.pc = "done",
                                            !.inp = [start_date |-> start_date,
                                                     end_date |-> end_date],
                                            !.stop_id = exclude_stop_id,
                                            !.loaded = existing_dates,
                                            !.status = response'.status]]
                /\ UNCHANGED <<trips, stops, next_trip_id, next_stop_id>>

OverlapNext == CheckOverlap

OverlapSpec == UpdateInit /\ [][OverlapNext]_vars

(***************************************************************************)
(* Concurrent requests.  Every request has its own AsyncSession and its    *)
(* own connection (get_db), and PostgreSQL runs the sessions READ          *)
(* COMMITTED.  One step is one statement sent to the database: a SELECT    *)
(* reads the committed rows and the session's own writes; an UPDATE locks  *)
(* its row until the session ends; a write whose unique key is held by a   *)
(* row version that another session has written and not yet committed      *)
(* waits for that session.  The INSERT, UPDATE or DELETE that a commit()   *)
(* flushes and the COMMIT itself are one step.  All requests are about     *)
(* trip ConcTrip and come from TEST_USER_ID.                               *)
(***************************************************************************)
ConcTrip == 1
ConcStopIds == 1..NumReorderStops

(* the requests the clients send *)
ConcCreateInputs ==
    {inp \in StopCreateInputs : inp.start_date = Today}
        \cup {[start_date |-> Today, end_date |-> Today, order_index |-> -1]}
ConcPatches ==
    {p \in StopPatches : DOMAIN p = {"order_index"} \/ DOMAIN p = {"end_date"}}
        \cup {[f \in {"order_index"} |-> -1]}
ConcReorderInputs == {ids \in ReorderStopInputs : StopReorder(ids) /\ Len(ids) >= 2}

(* the request of a session ends: its writes not committed are rolled back *)
Done(r, status) ==
    [r EXCEPT !.pc = "done", !.status = status, !.loaded = <<>>, !.present = {},
              !.flushed = {}, !.writes = <<>>]

(* mutant: a session does not read its own writes *)
session_rows_committed(s) == stops

(* the stops as session s reads them *)
session_rows(s) ==
    [id \in DOMAIN stops |->
        IF id \in DOMAIN reqs[s].writes
        THEN [stops[id] EXCEPT !.order_index = reqs[s].writes[id]]
        ELSE stops[id]]

(* another session has updated the row and not committed *)
row_locked(s, id) == \E u \in Slots \ {s} : id \in DOMAIN reqs[u].writes

(* another session holds a row version with this key, old or new *)
key_in_doubt(s, trip_id, order_index) ==
    \E u \in Slots \ {s} : \E x \in (DOMAIN reqs[u].writes) \cap (DOMAIN stops) :
        /\ stops[x].trip_id = trip_id
        /\ (stops[x].order_index = order_index \/ reqs[u].writes[x] = order_index)

(* the statement that follows the containment check of update_stop *)
after_dates_within_trip(update_data) ==
    IF "start_date" \in DOMAIN update_data \/ "end_date" \in DOMAIN update_data
    THEN "check_date_overlap"
    ELSE IF "order_index" \in DOMAIN update_data THEN "validate_order_index_unique"
    ELSE "update"

(* the statement that follows check_date_overlap *)
after_check_date_overlap(r) ==
    IF r.op = "create_stop" \/ "order_index" \in DOMAIN r.inp
    THEN "validate_order_index_unique"
    ELSE "update"

ConcInit ==
    /\ trips = <<[user_id |-> TEST_USER_ID, start_date |-> Today, end_date |-> MaxDay]>>
    /\ \E n \in 0..NumReorderStops : \E idx \in [1..n -> Indices] :
          /\ \A a, b \in 1..n : a # b => idx[a] # idx[b]
          /\ stops = [id \in 1..n |->
                        [trip_id |-> ConcTrip, order_index |-> idx[id],
                         start_date |-> Today, end_date |-> Today]]
          /\ next_stop_id = n + 1
    /\ next_trip_id = 2
    /\ response = Resp("none", 0, "none")
    /\ reqs = [s \in Slots |-> Idle]

(* create_stop: get_trip and validate_dates_within_trip *)
ReceiveCreateStop ==
    \E s \in Slots, inp \in ConcCreateInputs :
        /\ reqs[s].op = "none"
        /\ LET r == [Idle EXCEPT !.op = "create_stop", !.inp = inp]
               status ==
                   IF ~StopCreate(inp) THEN 422
                   ELSE IF ~get_trip(trips, ConcTrip, TEST_USER_ID) THEN 404
                   ELSE IF ~validate_dates_within_range(inp.start_date, inp.end_date,
                               trips[ConcTrip].start_date, trips[ConcTrip].end_date)
                   THEN 400
                   ELSE 0
           IN  reqs' = [reqs EXCEPT ![s] =
                          IF status # 0 THEN Done(r, status)
                          ELSE [r EXCEPT !.pc = "check_date_overlap"]]
        /\ UNCHANGED <<trips, stops, next_trip_id, next_stop_id, response>>

(* update_stop: get_trip *)
ReceiveUpdateStop ==
    \E s \in Slots, id \in ConcStopIds, patch \in ConcPatches :
        /\ reqs[s].op = "none"
        /\ LET r == [Idle EXCEPT !.op = "update_stop", !.inp = patch, !.stop_id = id]
           IN  reqs' = [reqs EXCEPT ![s] =
                          IF ~StopUpdate(patch) THEN Done(r, 422)
                          ELSE IF ~get_trip(trips, ConcTrip, TEST_USER_ID)
                          THEN Done(r, 404)
                          ELSE [r EXCEPT !.pc = "get_stop"]]
        /\ UNCHANGED <<trips, stops, next_trip_id, next_stop_id, response>>

(* update_stop: get_stop loads the row; validate_dates_within_trip on the
   loaded dates merged with the patch *)
GetStop ==
    \E s \in Slots :
        /\ reqs[s].pc = "get_stop"
        /\ LET r == reqs[s]
               rows == session_rows(s)
           IN  reqs' = [reqs EXCEPT ![s] =
                 IF ~get_by_id_and_trip(rows, r.stop_id, ConcTrip) THEN Done(r, 404)
                 ELSE LET stop == rows[r.stop_id]
                          final_start == Get(r.inp, "start_date", stop.start_date)
                          final_end == Get(r.inp, "end_date", stop.end_date)
                      IN  IF ~validate_dates_within_range(final_start, final_end,
                                 trips[ConcTrip].start_date, trips[ConcTrip].end_date)
                          THEN Done(r, 400)
                          ELSE [r EXCEPT !.loaded = stop,
                                         !.pc = after_dates_within_trip(r.inp)]]
        /\ UNCHANGED <<trips, stops, next_trip_id, next_stop_id, response>>

(* create_stop and update_stop: check_date_overlap *)
CheckDateOverlap ==
    \E s \in Slots :
        /\ reqs[s].pc = "check_date_overlap"
        /\ LET r == reqs[s]
               accepted ==
                   IF r.op = "create_stop"
                   THEN check_date_overlap(session_rows(s), r.inp.start_date,
                                           r.inp.end_date, ConcTrip, NoStop)
                   ELSE check_date_overlap(session_rows(s),
                            Get(r.inp, "start_date", r.loaded.start_date),
                            Get(r.inp, "end_date", r.loaded.end_date),
                            ConcTrip, r.stop_id)
           IN  reqs' = [reqs EXCEPT ![s] =
                          IF accepted THEN [r EXCEPT !.pc = after_check_date_overlap(r)]
                          ELSE Done(r, 400)]
        /\ UNCHANGED <<trips, stops, next_trip_id, next_stop_id, response>>

(* create_stop and update_stop: validate_order_index_unique *)
ValidateOrderIndexUnique ==
    \E s \in Slots :
        /\ reqs[s].pc = "validate_order_index_unique"
        /\ LET r == reqs[s]
               exists ==
                   order_index_exists(session_rows(s), ConcTrip, r.inp.order_index,
                       IF r.op = "create_stop" THEN NoStop ELSE r.stop_id)
           IN  reqs' = [reqs EXCEPT ![s] =
                          IF exists THEN Done(r, 400)
                          ELSE [r EXCEPT !.pc = IF r.op = "create_stop"
                                                THEN "create" ELSE "update"]]
        /\ UNCHANGED <<trips, stops, next_trip_id, next_stop_id, response>>

(* create_stop: repo.create_stop, which is INSERT and COMMIT.  The INSERT
   fails on the foreign key when the trip is gone and on the unique key when
   a committed row has the index; the exception is not caught: 500 *)
InsertStop ==
    \E s \in Slots :
        /\ reqs[s].pc = "create"
        /\ ~key_in_doubt(s, ConcTrip, reqs[s].inp.order_index)
        /\ LET r == reqs[s]
               accepted ==
                   /\ ConcTrip \in DOMAIN trips
                   /\ uq_stops_trip_id_order(stops, next_stop_id, ConcTrip,
                                             r.inp.order_index)
           IN  IF accepted
               THEN /\ stops' = With(stops, next_stop_id,
                          [trip_id |-> ConcTrip, order_index |-> r.inp.order_index,
                           start_date |-> r.inp.start_date,
                           end_date |-> r.inp.end_date])
                    /\ next_stop_id' = next_stop_id + 1
                    /\ reqs' = [reqs EXCEPT ![s] =
                                  Done([r EXCEPT !.stop_id = next_stop_id], 201)]
               ELSE /\ reqs' = [reqs EXCEPT ![s] = Done(r, 500)]
                    /\ UNCHANGED <<stops, next_stop_id>>
        /\ UNCHANGED <<trips, next_trip_id, response>>

(* update_stop: repo.update_stop.  get_by_id returns the instance already
   loaded (or None: 404), setattr marks the attributes whose value differs
   from the loaded one, and commit() sends one UPDATE of those columns *)
UpdateStopRow ==
    \E s \in Slots :
        /\ reqs[s].pc = "update"
        /\ LET r == reqs[s]
               changed == {k \in DOMAIN r.inp : r.inp[k] # r.loaded[k]}
               data == [k \in changed |-> r.inp[k]]
           IN  IF r.stop_id \notin DOMAIN stops
               THEN reqs' = [reqs EXCEPT ![s] = Done(r, 404)] /\ UNCHANGED stops
               ELSE IF changed = {}
               THEN reqs' = [reqs EXCEPT ![s] = Done(r, 200)] /\ UNCHANGED stops
               ELSE /\ ~row_locked(s, r.stop_id)
                    /\ "order_index" \in changed
                          => ~key_in_doubt(s, ConcTrip, r.inp["order_index"])
                    /\ IF /\ "order_index" \in changed
                          /\ ~uq_stops_trip_id_order(stops, r.stop_id, ConcTrip,
                                                     r.inp["order_index"])
                       THEN reqs' = [reqs EXCEPT ![s] = Done(r, 500)]
                            /\ UNCHANGED stops
                       ELSE /\ stops' = [stops EXCEPT
                                           ![r.stop_id] = setattrs(stops[r.stop_id], data)]
                            /\ reqs' = [reqs EXCEPT ![s] = Done(r, 200)]
        /\ UNCHANGED <<trips, next_trip_id, next_stop_id, response>>

(* delete_stop: get_stop *)
ReceiveDeleteStop ==
    \E s \in Slots, id \in ConcStopIds :
        /\ reqs[s].op = "none"
        /\ LET r == [Idle EXCEPT !.op = "delete_stop", !.stop_id = id]
           IN  reqs' = [reqs EXCEPT ![s] =
                          IF ~get_by_id_and_trip(stops, id, ConcTrip) THEN Done(r, 404)
                          ELSE [r EXCEPT !.pc = "delete"]]
        /\ UNCHANGED <<trips, stops, next_trip_id, next_stop_id, response>>

(* delete_stop: repo.delete_by_id, which is get_by_id, DELETE and COMMIT;
   a row that is gone by now is not an error *)
DeleteStopRow ==
    \E s \in Slots :
        /\ reqs[s].pc = "delete"
        /\ LET r == reqs[s]
           IN  /\ r.stop_id \in DOMAIN stops => ~row_locked(s, r.stop_id)
               /\ stops' = Without(stops, r.stop_id)
               /\ reqs' = [reqs EXCEPT ![s] = Done(r, 200)]
        /\ UNCHANGED <<trips, next_trip_id, next_stop_id, response>>

(* delete_trip: get_trip *)
ReceiveDeleteTrip ==
    \E s \in Slots :
        /\ reqs[s].op = "none"
        /\ LET r == [Idle EXCEPT !.op = "delete_trip"]
           IN  reqs' = [reqs EXCEPT ![s] =
                          IF ~get_trip(trips, ConcTrip, TEST_USER_ID) THEN Done(r, 404)
                          ELSE [r EXCEPT !.pc = "delete_trip"]]
        /\ UNCHANGED <<trips, stops, next_trip_id, next_stop_id, response>>

(* delete_trip: db.delete(trip) and COMMIT; the stops go with the trip *)
DeleteTripRow ==
    \E s \in Slots :
        /\ reqs[s].pc = "delete_trip"
        /\ \A id \in get_by_trip_id(stops, ConcTrip) : ~row_locked(s, id)
        /\ trips' = Without(trips, ConcTrip)
        /\ stops' = [id \in (DOMAIN stops) \ get_by_trip_id(stops, ConcTrip)
                        |-> stops[id]]
        /\ reqs' = [reqs EXCEPT ![s] = Done(reqs[s], 200)]
        /\ UNCHANGED <<next_trip_id, next_stop_id, response>>

(* reorder_stops: get_trip *)
ReceiveReorderStops ==
    \E s \in Slots, stop_ids \in ConcReorderInputs :
        /\ reqs[s].op = "none"
        /\ LET r == [Idle EXCEPT !.op = "reorder_stops", !.stop_ids = stop_ids]
           IN  reqs' = [reqs EXCEPT ![s] =
                          IF ~StopReorder(stop_ids) THEN Done(r, 422)
                          ELSE IF ~get_trip(trips, ConcTrip, TEST_USER_ID)
                          THEN Done(r, 404)
                          ELSE [r EXCEPT !.pc = "get_by_trip_id"]]
        /\ UNCHANGED <<trips, stops, next_trip_id, next_stop_id, response>>

(* reorder_stops: get_by_trip_id loads the trip's stops; the ids must be
   the ids of the request *)
LoadStops ==
    \E s \in Slots :
        /\ reqs[s].pc = "get_by_trip_id"
        /\ LET r == reqs[s]
               stop_ids_in_db == get_by_trip_id(session_rows(s), ConcTrip)
           IN  reqs' = [reqs EXCEPT ![s] =
                          IF Range(r.stop_ids) # stop_ids_in_db THEN Done(r, 400)
                          ELSE [r EXCEPT !.pc = "get_by_id"]]
        /\ UNCHANGED <<trips, stops, next_trip_id, next_stop_id, response>>

(* bulk_update_order_indices(temp_mapping): get_by_id for every id.  A row
   deleted since get_by_trip_id gives None and is skipped; the others are
   the loaded instances, now with a negative order_index to flush.  (A
   delete of one row commutes with the SELECT of another, so the loop is
   one step.) *)
SelectStops ==
    \E s \in Slots :
        /\ reqs[s].pc = "get_by_id"
        /\ LET r == reqs[s]
               present == Range(r.stop_ids) \cap DOMAIN stops
           IN  reqs' = [reqs EXCEPT ![s] =
                          [r EXCEPT !.present = present,
                                    !.pc = IF present = {} THEN "commit"
                                           ELSE "flush_temp"]]
        /\ UNCHANGED <<trips, stops, next_trip_id, next_stop_id, response>>

(* flush(): the next UPDATE, rows in primary-key order.  Phase 1 sends
   temp_mapping and phase 2 final_mapping; both change every loaded row,
   since a committed order_index is never negative.  An UPDATE that finds
   no row raises StaleDataError, one that breaks the unique key raises
   IntegrityError: the request ends with 500 and its writes are rolled
   back.  In phase 2 get_by_id finds the rows of phase 1 again: they are
   locked by this session. *)
FlushUpdate ==
    \E s \in Slots :
        /\ reqs[s].pc \in {"flush_temp", "flush_final"}
        /\ LET r == reqs[s]
               mapping == IF r.pc = "flush_temp" THEN temp_mapping(r.stop_ids)
                          ELSE final_mapping(r.stop_ids)
               todo == r.present \ r.flushed
               id == CHOOSE x \in todo : \A y \in todo : x <= y
           IN  IF id \notin DOMAIN stops
               THEN reqs' = [reqs EXCEPT ![s] = Done(r, 500)]
               ELSE /\ ~row_locked(s, id)
                    /\ ~key_in_doubt(s, ConcTrip, mapping[id])
                    /\ reqs' = [reqs EXCEPT ![s] =
                         IF ~uq_stops_trip_id_order(session_rows(s), id, ConcTrip,
                                                    mapping[id])
                         THEN Done(r, 500)
                         ELSE LET w == [r EXCEPT !.writes = With(r.writes, id, mapping[id]),
                                                 !.flushed = r.flushed \cup {id}]
                              IN  IF w.flushed # r.present THEN w
                                  ELSE [w EXCEPT !.flushed = {},
                                                 !.pc = IF r.pc = "flush_temp"
                                                        THEN "flush_final"
                                                        ELSE "commit"]]
        /\ UNCHANGED <<trips, stops, next_trip_id, next_stop_id, response>>

(* reorder_stops: db.commit() *)
CommitReorder ==
    \E s \in Slots :
        /\ reqs[s].pc = "commit"
        /\ stops' = session_rows(s)
        /\ reqs' = [reqs EXCEPT ![s] = Done(reqs[s], 200)]
        /\ UNCHANGED <<trips, next_trip_id, next_stop_id, response>>

ConcNext ==
    \/ ReceiveCreateStop
    \/ ReceiveUpdateStop
    \/ ReceiveDeleteStop
    \/ ReceiveDeleteTrip
    \/ ReceiveReorderStops
    \/ GetStop
    \/ CheckDateOverlap
    \/ ValidateOrderIndexUnique
    \/ InsertStop
    \/ UpdateStopRow
    \/ DeleteStopRow
    \/ DeleteTripRow
    \/ LoadStops
    \/ SelectStops
    \/ FlushUpdate
    \/ CommitReorder

ConcSpec == ConcInit /\ [][ConcNext]_vars

(***************************************************************************)
(* Properties                                                              *)
(***************************************************************************)
(* inclusive count of the calendar days two ranges share (<= 0: none) *)
SharedDays(s1, e1, s2, e2) == Min(e1, e2) - Max(s1, s2) + 1

StopsOf(trip_id) == {id \in DOMAIN stops : stops[id].trip_id = trip_id}

(* a request that got past the schema and found its trip *)
CreateReaches(u, t, inp) == StopCreate(inp) /\ t \in DOMAIN trips /\ trips[t].user_id = u
UpdateReaches(u, t, id, p) ==
    /\ StopUpdate(p)
    /\ t \in DOMAIN trips /\ trips[t].user_id = u
    /\ id \in DOMAIN stops /\ stops[id].trip_id = t

(* C2: requests served one at a time: every two distinct stops of a trip
   share at most 1 calendar day. *)
BoundedOverlap ==
    \A a, b \in DOMAIN stops :
        (a # b /\ stops[a].trip_id = stops[b].trip_id)
            => SharedDays(stops[a].start_date, stops[a].end_date,
                          stops[b].start_date, stops[b].end_date) <= 1

(* an update was just accepted and two stops of a trip share exactly one day *)
BoundedOverlapWitness ==
    /\ response.op = "update_stop" /\ response.kind = "ok"
    /\ \E a, b \in DOMAIN stops :
          /\ a # b /\ stops[a].trip_id = stops[b].trip_id
          /\ SharedDays(stops[a].start_date, stops[a].end_date,
                        stops[b].start_date, stops[b].end_date) = 1

(* C3: every stop's range lies within the range of its trip, in every
   reachable state, trip date updates included. *)
Containment ==
    \A id \in DOMAIN stops :
        stops[id].trip_id \in DOMAIN trips
            => /\ trips[stops[id].trip_id].start_date <= stops[id].start_date
               /\ stops[id].end_date <= trips[stops[id].trip_id].end_date

(* C8: a create whose range lies within the trip is rejected for overlap
   exactly when some stop of the trip shares more than 1 day with it. *)
CreateOverlapRejection ==
    \A u \in Users, t \in TripIds, inp \in StopCreateInputs :
        (/\ CreateReaches(u, t, inp)
         /\ trips[t].start_date <= inp.start_date
         /\ inp.end_date <= trips[t].end_date)
        => ((create_stop_check(trips, stops, u, t, inp) = "overlap")
              <=> \E id \in StopsOf(t) :
                     SharedDays(inp.start_date, inp.end_date,
                                stops[id].start_date, stops[id].end_date) > 1)

(* a create was just rejected for overlap, in a trip where two stops that
   share exactly one day were accepted before *)
CreateOverlapWitness ==
    /\ response.op = "create_stop" /\ response.kind = "overlap"
    /\ \E a, b \in DOMAIN stops :
          /\ a # b /\ stops[a].trip_id = stops[b].trip_id
          /\ SharedDays(stops[a].start_date, stops[a].end_date,
                        stops[b].start_date, stops[b].end_date) = 1

(* C9: a create or update is rejected as out of bounds exactly when the
   (merged) start is before the trip's start or the (merged) end after the
   trip's end. *)
OutOfBoundsRejection ==
    /\ \A u \in Users, t \in TripIds, inp \in StopCreateInputs :
          CreateReaches(u, t, inp)
          => ((create_stop_check(trips, stops, u, t, inp) = "out_of_bounds")
                <=> (inp.start_date < trips[t].start_date
                        \/ inp.end_date > trips[t].end_date))
    /\ \A u \in Users, t \in TripIds, id \in StopIds, p \in StopPatches :
          UpdateReaches(u, t, id, p)
          => LET merged_start == IF "start_date" \in DOMAIN p THEN p["start_date"]
                                 ELSE stops[id].start_date
                 merged_end == IF "end_date" \in DOMAIN p THEN p["end_date"]
                               ELSE stops[id].end_date
             IN  (update_stop_check(trips, stops, u, t, id, p) = "out_of_bounds")
                   <=> (merged_start < trips[t].start_date
                           \/ merged_end > trips[t].end_date)

(* an update was just rejected as out of bounds while a stop of the trip
   fills the trip's whole range *)
OutOfBoundsWitness ==
    /\ response.op = "update_stop" /\ response.kind = "out_of_bounds"
    /\ \E id \in DOMAIN stops :
          /\ stops[id].trip_id \in DOMAIN trips
          /\ stops[id].start_date = trips[stops[id].trip_id].start_date
          /\ stops[id].end_date = trips[stops[id].trip_id].end_date

(* seq lists exactly the elements of S, in increasing order *)
IsSortedListOf(seq, S) ==
    /\ Range(seq) = S
    /\ \A i, j \in DOMAIN seq : i < j => seq[i] < seq[j]

(* C10: a reorder whose set of ids differs from the set of the trip's stop
   ids is rejected with the sorted missing ids and the sorted unexpected
   ids, and no stop changes. *)
ReorderMismatchRejected ==
    [][\A u \in Users, t \in TripIds, ids \in ReorderInputs :
          (/\ response'.op = "reorder_stops"
           /\ StopReorder(ids)
           /\ t \in DOMAIN trips /\ trips[t].user_id = u
           /\ Range(ids) # StopsOf(t)
           /\ reorder_stops(u, t, ids))
          => /\ response'.op = "reorder_stops" /\ response'.status = 400
             /\ IsSortedListOf(response'.missing, StopsOf(t) \ Range(ids))
             /\ IsSortedListOf(response'.extra, Range(ids) \ StopsOf(t))
             /\ stops' = stops]_vars

(* a reorder was just rejected with both lists non-empty *)
ReorderMismatchWitness ==
    /\ response.op = "reorder_stops" /\ response.status = 400
    /\ response.missing # <<>> /\ response.extra # <<>>

(* C4: a successful reorder leaves stop stop_ids[i] at index i (0-based),
   so the trip's indices are exactly 0..n-1, each used once. *)
ReorderAssignsPositions ==
    [][\A u \in Users, t \in TripIds, ids \in ReorderStopInputs :
          (/\ response'.op = "reorder_stops" /\ response'.status = 200
           /\ reorder_stops(u, t, ids))
          => /\ \A i \in DOMAIN ids : stops'[ids[i]].order_index = i - 1
             /\ {stops'[id].order_index : id \in {x \in DOMAIN stops' : stops'[x].trip_id = t}}
                    = 0..(Len(ids) - 1)
             /\ Cardinality({x \in DOMAIN stops' : stops'[x].trip_id = t}) = Len(ids)]_vars

(* the reorder [3, 1, 2] of a three-stop trip was just applied *)
ReorderAssignsPositionsWitness ==
    /\ response.op = "reorder_stops" /\ response.status = 200
    /\ DOMAIN stops = {1, 2, 3}
    /\ stops[3].order_index = 0 /\ stops[1].order_index = 1 /\ stops[2].order_index = 2

(* the valid permutations of a trip's stops *)
ValidOrders(t) ==
    {ids \in ReorderStopInputs : StopReorder(ids) /\ Range(ids) = StopsOf(t)}

(* C5: on a store that checks the unique key at every row write, no write of
   phase 1 and no write of phase 2 is rejected, whatever the permutation and
   whatever distinct non-negative indices the stops had. *)
ReorderWritesAccepted ==
    \A t \in DOMAIN trips : \A ids \in ValidOrders(t) :
        LET phase1 == bulk_update_order_indices(stops, temp_mapping(ids))
        IN  /\ phase1.ok
            /\ \A id \in Range(ids) :
                  phase1.rows[id].order_index =
                      -(CHOOSE i \in DOMAIN ids : ids[i] = id)
            /\ bulk_update_order_indices(phase1.rows, final_mapping(ids)).ok

(* a reorder that swapped the first two of three stops just went through *)
ReorderWritesAcceptedWitness ==
    /\ response.op = "reorder_stops" /\ response.status = 200
    /\ DOMAIN stops = {1, 2, 3}
    /\ stops[2].order_index = 0 /\ stops[1].order_index = 1 /\ stops[3].order_index = 2

(* C1: in every committed state, whatever creates, updates, deletes and
   reorders of stops and deletes of the trip have run, one after the other
   or interleaved, no two stops of a trip have the same order_index. *)
OrderIndexUnique ==
    \A a, b \in DOMAIN stops :
        (a # b /\ stops[a].trip_id = stops[b].trip_id)
            => stops[a].order_index # stops[b].order_index

(* a create passed validate_order_index_unique and its INSERT was rejected,
   in a trip that has two stops or more *)
OrderIndexUniqueWitness ==
    /\ \E s \in Slots : reqs[s].op = "create_stop" /\ reqs[s].status = 500
    /\ ConcTrip \in DOMAIN trips
    /\ Cardinality(StopsOf(ConcTrip)) >= 2

(* the create requests that succeeded, and the stops before them *)
Created == {s \in Slots : reqs[s].op = "create_stop" /\ reqs[s].status = 201}
StopsBefore ==
    [id \in (DOMAIN stops) \ {reqs[s].stop_id : s \in Created} |-> stops[id]]

(* C6: when all the requests are creates of the same order_index, each one
   acceptable on the stops found before them, then once they have ended
   exactly one has succeeded and exactly one stop has the index. *)
OneCreateSucceeds ==
    \A k \in Indices :
        (\A s \in Slots :
            /\ reqs[s].op = "create_stop" /\ reqs[s].pc = "done"
            /\ reqs[s].inp.order_index = k
            /\ create_stop_check(trips, StopsBefore, TEST_USER_ID, ConcTrip,
                                 reqs[s].inp) = "ok")
        => /\ Cardinality(Created) = 1
           /\ Cardinality({id \in StopsOf(ConcTrip) : stops[id].order_index = k}) = 1

(* two creates of index 1 have ended: one inserted its stop, the other was
   rejected by the store *)
OneCreateSucceedsWitness ==
    /\ \A s \in Slots :
          /\ reqs[s].op = "create_stop" /\ reqs[s].pc = "done"
          /\ reqs[s].inp.order_index = 1
    /\ \E s \in Slots : reqs[s].status = 201
    /\ \E s \in Slots : reqs[s].status = 500

(* the stops of the trip are in the order of ids, at positions 0..n-1 *)
OrderIs(ids) ==
    /\ Range(ids) = StopsOf(ConcTrip)
    /\ \A i \in DOMAIN ids : stops[ids[i]].order_index = i - 1

(* C7: when the only requests are two reorders with different permutations
   of the trip's stops, then once they have ended both have succeeded and
   the committed order is one of the two permutations, at positions
   0..n-1. *)
ConcurrentReorders ==
    \A a, b \in Slots :
        (/\ a # b
         /\ \A s \in Slots \ {a, b} : reqs[s].op = "none"
         /\ reqs[a].op = "reorder_stops" /\ reqs[a].pc = "done"
         /\ reqs[b].op = "reorder_stops" /\ reqs[b].pc = "done"
         /\ reqs[a].stop_ids # reqs[b].stop_ids
         /\ Range(reqs[a].stop_ids) = StopsOf(ConcTrip)
         /\ Range(reqs[b].stop_ids) = StopsOf(ConcTrip))
        => /\ reqs[a].status = 200
           /\ reqs[b].status = 200
           /\ OrderIs(reqs[a].stop_ids) \/ OrderIs(reqs[b].stop_ids)

(* the reorders [3, 1, 2] and [2, 3, 1] of a three-stop trip have both
   ended, and the order is [2, 3, 1] *)
ConcurrentReordersWitness ==
    /\ \E a, b \in Slots :
          /\ reqs[a].op = "reorder_stops" /\ reqs[a].status = 200
          /\ reqs[a].stop_ids = <<3, 1, 2>>
          /\ reqs[b].op = "reorder_stops" /\ reqs[b].status = 200
          /\ reqs[b].stop_ids = <<2, 3, 1>>
    /\ OrderIs(<<2, 3, 1>>)

(* C11: a reorder that lists a stop id twice is refused with the duplicate-id
   error of the schema, also when the set of its ids is the set of the
   trip's stop ids, and no stop changes. *)
ReorderDuplicateRejected ==
    [][\A u \in Users, t \in TripIds, ids \in ReorderInputs :
          (/\ response'.op = "reorder_stops"
           /\ Len(ids) # Cardinality(Range(ids))
           /\ reorder_stops(u, t, ids))
          => /\ response'.status = 422 /\ response'.kind = "duplicate_ids"
             /\ stops' = stops]_vars

(* a reorder was just refused for duplicates, and the set of the ids it
   listed is the set of the trip's stop ids *)
ReorderDuplicateWitness ==
    /\ response.kind = "duplicate_ids"
    /\ \E t \in DOMAIN trips : StopsOf(t) # {} /\ Range(response.input) = StopsOf(t)

(* the range fits the trip; some stop of the trip other than excl shares
   more than one day with the range *)
Fits(t, s, e) == trips[t].start_date <= s /\ e <= trips[t].end_date
Crowded(t, s, e, excl) ==
    \E o \in StopsOf(t) \ {excl} :
        SharedDays(s, e, stops[o].start_date, stops[o].end_date) > 1

(* C12: a create, or an update that patches order_index, asking for an
   order_index that another stop of the same trip holds is never accepted;
   when it has passed the checks that come first (schema, trip, stop,
   containment, overlap) the rejection is the duplicate-index one; and a
   request rejected so leaves the stops unchanged. *)
DuplicateIndexRejected ==
    /\ [](/\ \A u \in Users, t \in TripIds, inp \in StopCreateInputs :
              (\E o \in StopsOf(t) : stops[o].order_index = inp.order_index)
              => LET kind == IF ~StopCreate(inp) THEN "schema"
                             ELSE create_stop_check(trips, stops, u, t, inp)
                 IN  /\ kind # "ok"
                     /\ (/\ CreateReaches(u, t, inp)
                         /\ Fits(t, inp.start_date, inp.end_date)
                         /\ ~Crowded(t, inp.start_date, inp.end_date, NoStop))
                        => kind = "duplicate_index"
          /\ \A u \in Users, t \in TripIds, id \in StopIds, p \in StopPatches :
              (/\ "order_index" \in DOMAIN p
               /\ \E o \in StopsOf(t) \ {id} : stops[o].order_index = p["order_index"])
              => LET kind == IF ~StopUpdate(p) THEN "schema"
                             ELSE update_stop_check(trips, stops, u, t, id, p)
                 IN  /\ kind # "ok"
                     /\ UpdateReaches(u, t, id, p) =>
                          LET merged_start == Get(p, "start_date", stops[id].start_date)
                              merged_end == Get(p, "end_date", stops[id].end_date)
                          IN  (/\ Fits(t, merged_start, merged_end)
                               /\ ("start_date" \in DOMAIN p \/ "end_date" \in DOMAIN p)
                                     => ~Crowded(t, merged_start, merged_end, id))
                              => kind = "duplicate_index")
    /\ [][response'.kind = "duplicate_index"
             => response'.status = 400 /\ stops' = stops]_vars

(* an update asking for the index of the trip's other stop was just
   rejected as a duplicate *)
DuplicateIndexWitness ==
    /\ response.op = "update_stop" /\ response.kind = "duplicate_index"
    /\ \E a, b \in DOMAIN stops : a # b /\ stops[a].trip_id = stops[b].trip_id

(* C13: in every reachable state the trip of every stop exists: the stops
   of a deleted trip are gone with it. *)
NoOrphanStops == \A id \in DOMAIN stops : stops[id].trip_id \in DOMAIN trips

(* a trip for which MaxStops stops were created was just deleted *)
NoOrphanStopsWitness ==
    /\ response.op = "delete_trip" /\ response.status = 200
    /\ next_stop_id = MaxStops + 1
    /\ DOMAIN trips = {} /\ DOMAIN stops = {}

(* the stops that are not of trip t are the same before and after the step *)
OtherTripsUntouched(t) ==
    /\ {id \in DOMAIN stops : stops[id].trip_id # t}
          = {id \in DOMAIN stops' : stops'[id].trip_id # t}
    /\ \A id \in DOMAIN stops : stops[id].trip_id # t => stops'[id] = stops[id]

(* C14: a stop create, update, delete or reorder addressed to a trip, and the
   delete of that trip, leave the stops of every other trip as they were:
   the same stops with the same fields. *)
TripIsolation ==
    [][\A u \in Users, t \in IsoTrips :
          /\ (/\ response'.op = "create_stop"
              /\ \E inp \in IsoCreateInputs : create_stop(u, t, inp))
             => OtherTripsUntouched(t)
          /\ (/\ response'.op = "update_stop"
              /\ \E id \in IsoStopIds, p \in IsoPatches : update_stop(u, t, id, p))
             => OtherTripsUntouched(t)
          /\ (/\ response'.op = "delete_stop"
              /\ \E id \in IsoStopIds : delete_stop(u, t, id))
             => OtherTripsUntouched(t)
          /\ (/\ response'.op = "reorder_stops"
              /\ \E ids \in IsoReorderInputs : reorder_stops(u, t, ids))
             => OtherTripsUntouched(t)
          /\ (response'.op = "delete_trip" /\ delete_trip(u, t))
             => OtherTripsUntouched(t)]_vars

(* a stop was just created with the order_index that a stop of the other
   trip has *)
TripIsolationWitness ==
    /\ response.op = "create_stop" /\ response.status = 201
    /\ (next_stop_id - 1) \in DOMAIN stops
    /\ \E b \in DOMAIN stops :
          /\ stops[b].trip_id # stops[next_stop_id - 1].trip_id
          /\ stops[b].order_index = stops[next_stop_id - 1].order_index

(* the rejections that validation makes *)
ValidationKinds == {"out_of_bounds", "overlap", "duplicate_index", "id_mismatch"}

(* C15: a stop create, update or reorder that validation rejects (out of
   bounds, overlap, duplicate index, id mismatch) leaves the trips and the
   stops exactly as they were. *)
RejectedLeavesState ==
    [][(/\ response'.op \in {"create_stop", "update_stop", "reorder_stops"}
        /\ response'.kind \in ValidationKinds)
       => /\ response'.status = 400
          /\ trips' = trips /\ stops' = stops /\ next_stop_id' = next_stop_id]_vars

(* an update of one of two stops was just rejected for overlap *)
RejectedLeavesStateWitness ==
    /\ response.op = "update_stop" /\ response.kind = "overlap"
    /\ Cardinality(DOMAIN stops) = 2

(* C16: a reorder applied again with the same stop_ids, right after it
   succeeded, is accepted and assigns every stop the order_index it
   already has. *)
ReorderIdempotent ==
    [][\A u \in Users, t \in TripIds, ids \in ReorderStopInputs :
          (/\ response'.op = "reorder_stops" /\ response'.status = 200
           /\ reorder_stops(u, t, ids))
          => /\ StopReorder(ids)
             /\ Range(ids) = get_by_trip_id(stops', t)
             /\ two_phase_update(stops', ids).ok
             /\ two_phase_update(stops', ids).rows = stops']_vars

(* the reorder [2, 3, 1] of a three-stop trip was just applied *)
ReorderIdempotentWitness ==
    /\ response.op = "reorder_stops" /\ response.status = 200
    /\ DOMAIN stops = {1, 2, 3}
    /\ stops[2].order_index = 0 /\ stops[3].order_index = 1 /\ stops[1].order_index = 2

(* C17: a successful update gives every field of the patch its new value and
   leaves the other fields of the stop, its id and its trip as stored. *)
UpdateWritesPatchOnly ==
    [][\A u \in Users, t \in TripIds, id \in StopIds, p \in StopPatches :
          (/\ response'.op = "update_stop" /\ response'.status = 200
           /\ update_stop(u, t, id, p))
          => /\ DOMAIN stops' = DOMAIN stops
             /\ stops'[id].trip_id = stops[id].trip_id
             /\ \A f \in StopFields :
                   stops'[id][f] = IF f \in DOMAIN p THEN p[f] ELSE stops[id][f]]_vars

(* an update was just accepted, and a stop has the last index and the last
   two days *)
UpdateWritesPatchOnlyWitness ==
    /\ response.op = "update_stop" /\ response.status = 200
    /\ \E id \in DOMAIN stops :
          /\ stops[id].order_index = MaxIndex
          /\ stops[id].start_date = MaxDay - 1 /\ stops[id].end_date = MaxDay

(* C18: in every reachable state every stop has end_date >= start_date,
   also after an update whose patch carries only one of the two dates. *)
StopRangeOrdered == \A id \in DOMAIN stops : stops[id].end_date >= stops[id].start_date

(* C19: every committed stop has order_index >= 0; the negative indices of
   phase 1 of a reorder are in no committed state, whether the reorder
   commits or fails after phase 1. *)
OrderIndexNonNegative == \A id \in DOMAIN stops : stops[id].order_index >= 0

(* a reorder failed in phase 2: it ended with 500 although none of its
   stops was deleted, so phase 1 had written all its negative indices *)
OrderIndexNonNegativeWitness ==
    \E s \in Slots :
        /\ reqs[s].op = "reorder_stops" /\ reqs[s].status = 500
        /\ Range(reqs[s].stop_ids) \subseteq DOMAIN stops

(* C20: of two creates for the same trip with different order_index values
   and ranges that share more than 1 day, whatever the interleaving of
   their statements, at most one is committed. *)
OverlappingCreatesExclude ==
    \A a, b \in Slots :
        (/\ a # b
         /\ reqs[a].op = "create_stop" /\ reqs[b].op = "create_stop"
         /\ reqs[a].inp.order_index # reqs[b].inp.order_index
         /\ SharedDays(reqs[a].inp.start_date, reqs[a].inp.end_date,
                       reqs[b].inp.start_date, reqs[b].inp.end_date) > 1)
        => ~(reqs[a].status = 201 /\ reqs[b].status = 201)

(* C21: a stop create, update, delete or reorder that reaches StopService
   (its body passed the schema) from a user on a trip of another user is
   answered 404 and leaves every stop as it was. *)
ForeignTripRejected ==
    [][\A u \in OwnerUsers, t \in IsoTrips :
          (t \in DOMAIN trips /\ trips[t].user_id # u)
          => /\ (/\ response'.op = "create_stop"
                 /\ \E inp \in {x \in IsoCreateInputs : StopCreate(x)} :
                       create_stop(u, t, inp))
                => (response'.status = 404 /\ stops' = stops)
             /\ (/\ response'.op = "update_stop"
                 /\ \E id \in IsoStopIds, p \in {x \in IsoPatches : StopUpdate(x)} :
                       update_stop(u, t, id, p))
                => (response'.status = 404 /\ stops' = stops)
             /\ (/\ response'.op = "delete_stop"
                 /\ \E id \in IsoStopIds : delete_stop(u, t, id))
                => (response'.status = 404 /\ stops' = stops)
             /\ (/\ response'.op = "reorder_stops"
                 /\ \E ids \in {x \in IsoReorderInputs : StopReorder(x)} :
                       reorder_stops(u, t, ids))
                => (response'.status = 404 /\ stops' = stops)]_vars

(* C22: an update of a stop whose stored range is not within the current
   range of its trip is rejected as out of bounds (400, nothing written)
   also when the patch carries no date. *)
UpdateRechecksContainment ==
    [][\A u \in Users, t \in TripIds, id \in StopIds, p \in NonDatePatches :
          (/\ response'.op = "update_stop"
           /\ get_trip(trips, t, u) /\ get_by_id_and_trip(stops, id, t)
           /\ ~validate_dates_within_range(stops[id].start_date, stops[id].end_date,
                    trips[t].start_date, trips[t].end_date)
           /\ update_stop(u, t, id, p))
          => /\ response'.kind = "out_of_bounds" /\ response'.status = 400
             /\ stops' = stops]_vars

(* a patch without dates was just rejected as out of bounds *)
UpdateRechecksContainmentWitness ==
    /\ response.op = "update_stop" /\ response.kind = "out_of_bounds"
    /\ \E id \in DOMAIN stops :
          ~validate_dates_within_range(stops[id].start_date, stops[id].end_date,
                trips[stops[id].trip_id].start_date, trips[stops[id].trip_id].end_date)

(* C23: an update of a trip of the user succeeds exactly when the merged
   range has end_date >= start_date, whatever the stops of the trip are;
   it then stores the merged range, and in both cases every stop stays as
   it was. *)
UpdateTripIgnoresStops ==
    [][\A u \in Users, t \in TripIds, p \in {x \in TripPatches : TripUpdate(x)} :
          (/\ response'.op = "update_trip"
           /\ get_trip(trips, t, u)
           /\ update_trip(u, t, p))
          => LET new_start == Get(p, "start_date", trips[t].start_date)
                 new_end == Get(p, "end_date", trips[t].end_date)
             IN  /\ (response'.status = 200) <=> (new_end >= new_start)
                 /\ response'.status = 200
                       => (/\ trips'[t].start_date = new_start
                           /\ trips'[t].end_date = new_end)
                 /\ response'.status # 200 => trips' = trips
                 /\ stops' = stops]_vars

(* a trip update was just accepted and a stop of the trip is outside the
   new range *)
UpdateTripIgnoresStopsWitness ==
    /\ response.op = "update_trip" /\ response.status = 200
    /\ \E id \in DOMAIN stops :
          LET trip == trips[stops[id].trip_id]
          IN  stops[id].start_date < trip.start_date \/ stops[id].end_date > trip.end_date

(* C24: a create whose candidate is outside the trip range is rejected as
   out of bounds, whatever it overlaps and whatever index it asks for; a
   create whose candidate is within the trip range and shares more than 1 day
   with a stop of the trip is rejected for overlap, whatever index it asks
   for; both with 400 and nothing written. *)
CreateChecksInOrder ==
    [][\A u \in Users, t \in TripIds, inp \in {x \in StopCreateInputs : StopCreate(x)} :
          (/\ response'.op = "create_stop"
           /\ get_trip(trips, t, u)
           /\ create_stop(u, t, inp))
          => /\ ~Fits(t, inp.start_date, inp.end_date)
                => (/\ response'.kind = "out_of_bounds" /\ response'.status = 400
                    /\ stops' = stops)
             /\ (/\ Fits(t, inp.start_date, inp.end_date)
                 /\ Crowded(t, inp.start_date, inp.end_date, NoStop))
                => (/\ response'.kind = "overlap" /\ response'.status = 400
                    /\ stops' = stops)]_vars

(* the create served last was outside the trip range, shared more than 1 day
   with a stop and asked for the index of a stop, and was rejected as out of
   bounds *)
CreateChecksInOrderWitness ==
    /\ reqs[1].op = "create_stop" /\ response.kind = "out_of_bounds"
    /\ ~Fits(1, reqs[1].inp.start_date, reqs[1].inp.end_date)
    /\ Crowded(1, reqs[1].inp.start_date, reqs[1].inp.end_date, NoStop)
    /\ \E o \in StopsOf(1) : stops[o].order_index = reqs[1].inp.order_index

(* C25: an update whose merged range is within the trip range and shares
   more than 1 day with no OTHER stop of the trip, and whose order_index, if
   patched, is held by no OTHER stop of the trip, succeeds and stores the
   merged values: what the stop itself held before counts for nothing. *)
UpdateExcludesSelf ==
    \A r \in {reqs[1]} :
        (/\ r.op = "update_stop" /\ StopUpdate(r.inp) /\ r.loaded # <<>>)
        => LET t == r.loaded.trip_id
               final_start == Get(r.inp, "start_date", r.loaded.start_date)
               final_end == Get(r.inp, "end_date", r.loaded.end_date)
               final_index == Get(r.inp, "order_index", r.loaded.order_index)
           IN  (/\ Fits(t, final_start, final_end)
                /\ ~Crowded(t, final_start, final_end, r.stop_id)
                /\ \A o \in StopsOf(t) \ {r.stop_id} :
                      stops[o].order_index # final_index)
               => /\ response.status = 200
                  /\ stops[r.stop_id] =
                        [trip_id |-> t, order_index |-> final_index,
                         start_date |-> final_start, end_date |-> final_end]

(* the update served last asked for the index the stop already had and for
   a range sharing more than 1 day with the range it had, and was accepted *)
UpdateExcludesSelfWitness ==
    /\ reqs[1].op = "update_stop" /\ response.status = 200
    /\ "order_index" \in DOMAIN reqs[1].inp
    /\ reqs[1].inp["order_index"] = reqs[1].loaded.order_index
    /\ "end_date" \in DOMAIN reqs[1].inp
    /\ SharedDays(reqs[1].loaded.start_date, reqs[1].loaded.end_date,
                  stops[reqs[1].stop_id].start_date,
                  stops[reqs[1].stop_id].end_date) > 1
    /\ reqs[1].loaded.end_date # stops[reqs[1].stop_id].end_date

(* C26: on a store that checks the unique key only at commit, for every
   permutation of the stops of a trip the single pass of the router and the
   two phases of the service both commit, with the same order_index for every
   stop; and that is the assignment the two phases commit on the store that
   checks every row write. *)
SinglePassEqualsTwoPhase ==
    \A t \in DOMAIN trips : \A ids \in ValidOrders(t) :
        LET single == single_pass_reorder(stops, ids)
            double == two_phase_reorder_deferred(stops, ids)
        IN  /\ single.ok /\ double.ok
            /\ single.rows = double.rows
            /\ two_phase_update(stops, ids).rows = single.rows

(* the service just applied the reorder [3, 1, 2] to a trip of three stops,
   and the stops are as the single pass leaves them *)
SinglePassEqualsTwoPhaseWitness ==
    /\ response.op = "reorder_stops" /\ response.status = 200
    /\ DOMAIN stops = {1, 2, 3}
    /\ stops[3].order_index = 0
    /\ stops = single_pass_reorder(stops, <<3, 1, 2>>).rows

(* C27: a successful delete of a stop removes that stop and nothing else:
   every other stop keeps its order_index and its dates; no stop of the trip
   holds the deleted order_index afterwards, so a create of the deleted stop
   over again, and an update of any sibling to the deleted order_index, pass
   every check. *)
DeleteRemovesOnlyThat ==
    [][\A u \in Users, t \in TripIds, id \in StopIds :
          (/\ response'.op = "delete_stop" /\ response'.status = 200
           /\ delete_stop(u, t, id))
          => /\ DOMAIN stops' = (DOMAIN stops) \ {id}
             /\ \A o \in DOMAIN stops' : stops'[o] = stops[o]
             /\ create_stop_check(trips', stops', u, t,
                    [start_date |-> stops[id].start_date,
                     end_date |-> stops[id].end_date,
                     order_index |-> stops[id].order_index]) = "ok"
             /\ \A o \in DOMAIN stops' :
                   stops'[o].trip_id = t
                   => update_stop_check(trips', stops', u, t, o,
                        [f \in {"order_index"} |-> stops[id].order_index]) = "ok"]_vars

(* the first stop was just deleted, and the second keeps an index above 0 *)
DeleteRemovesOnlyThatWitness ==
    /\ reqs[1].op = "delete_stop" /\ reqs[1].stop_id = 1 /\ response.status = 200
    /\ DOMAIN stops = {2} /\ stops[2].order_index > 0

(* C28: a successful reorder leaves the set of stops as it was and, of
   every stop, the trip and the dates; the trips are untouched as well. *)
ReorderWritesIndexOnly ==
    [][(response'.op = "reorder_stops" /\ response'.status = 200)
       => /\ DOMAIN stops' = DOMAIN stops
          /\ \A id \in DOMAIN stops :
                /\ stops'[id].trip_id = stops[id].trip_id
                /\ stops'[id].start_date = stops[id].start_date
                /\ stops'[id].end_date = stops[id].end_date
          /\ trips' = trips
          /\ next_stop_id' = next_stop_id]_vars

(* a reorder was just applied to a trip of two stops with different dates,
   and the stop created later comes first *)
ReorderWritesIndexOnlyWitness ==
    /\ response.op = "reorder_stops" /\ response.status = 200
    /\ \E a, b \in DOMAIN stops :
          /\ a < b /\ stops[a].trip_id = stops[b].trip_id
          /\ stops[a].end_date # stops[b].end_date
          /\ stops[b].order_index = 0 /\ stops[a].order_index = 1

(* C29: when the candidate shares more than 1 day with one or more of the
   stops the validator is given, the rejection names the first of them in
   the order of the list, with the number of days and the first and last day
   of the intersection with that stop; when it does with none, nothing is
   rejected. *)
OverlapNamesFirst ==
    \A r \in {reqs[1]} :
        r.op = "check_date_overlap"
        => LET Shared(i) == SharedDays(r.inp.start_date, r.inp.end_date,
                                       r.loaded[i].start_date, r.loaded[i].end_date)
               over == {i \in DOMAIN r.loaded : Shared(i) > 1}
           IN  IF over = {} THEN response.status = 200
               ELSE LET k == CHOOSE i \in over : \A j \in over : i <= j
                    IN  /\ response.status = 400 /\ response.kind = "overlap"
                        /\ response.detail.stop_name = r.loaded[k].id
                        /\ response.detail.overlap_days = Shared(k)
                        /\ response.detail.overlap_start =
                              Max(r.inp.start_date, r.loaded[k].start_date)
                        /\ response.detail.overlap_end =
                              Min(r.inp.end_date, r.loaded[k].end_date)

(* the candidate 0..2 against the stops 0..1 and then 1..2: the rejection
   reports the first, 2 days, 0 to 1 *)
OverlapNamesFirstWitness ==
    /\ reqs[1].op = "check_date_overlap"
    /\ reqs[1].inp = [start_date |-> Today, end_date |-> MaxDay]
    /\ Len(reqs[1].loaded) = 2
    /\ reqs[1].loaded[1].start_date = Today /\ reqs[1].loaded[1].end_date = Today + 1
    /\ reqs[1].loaded[2].start_date = Today + 1 /\ reqs[1].loaded[2].end_date = MaxDay
    /\ response.detail = [stop_name |-> reqs[1].loaded[1].id, overlap_days |-> 2,
                          overlap_start |-> Today, overlap_end |-> Today + 1]

(* C30: in every reachable state every trip has end_date >= start_date; and
   an update of a trip that supplies one of the two dates and would leave
   end_date before start_date, given the stored other date, is rejected with
   400 and the trip stays as it was. *)
TripRangeOrdered ==
    /\ [](\A t \in DOMAIN trips : trips[t].end_date >= trips[t].start_date)
    /\ [][\A u \in Users, t \in TripIds,
            p \in {x \in TripPatches : Cardinality(DOMAIN x) = 1 /\ TripUpdate(x)} :
             (/\ response'.op = "update_trip"
              /\ get_trip(trips, t, u)
              /\ Get(p, "end_date", trips[t].end_date)
                    < Get(p, "start_date", trips[t].start_date)
              /\ update_trip(u, t, p))
             => (response'.status = 400 /\ trips' = trips)]_vars

(* an update of a trip was just rejected for its merged range *)
TripRangeOrderedWitness ==
    /\ response.op = "update_trip" /\ response.kind = "invalid_range"
    /\ response.status = 400
    /\ DOMAIN trips # {}

====
